---- MODULE Spec2Model ----
(***************************************************************************)
(* Model of go-bigcompressor (src/bigcompressor.go): the chunk planner     *)
(* (createChunkInfo), Compress with its two chunk writers, and Decompress  *)
(* with its bufio.Scanner split function and the tar/zstd replay.          *)
(***************************************************************************)
EXTENDS Integers, Sequences, FiniteSets, TLC

VARIABLES
    walk,        \* the calls filepath.Walk makes to the walk function, in order
    bc,          \* the BigCompressor instance (its exported and private fields)
    dataChunks,  \* the plan createChunkInfo returned (local of Compress)
    pc,          \* position of the running operation
    fs,          \* the output files: dst and dst_0, dst_1, ...
    out,         \* the files under the destination directory of Decompress
    zstdEncode,  \* package variable: the shared zstd encoder
    tarEncode,   \* package variable: the shared tar writer
    zstdDecode,  \* package variable: the shared zstd decoder
    tarDecode,   \* package variable: the shared tar reader
    chunkIdx,    \* Compress: index of the chunk the loop is at
    chunkBytes,  \* Compress: the compressed bytes produced for each chunk
    quirks,      \* number of frames so far with a marker or whitespace in them
    src,         \* Decompress: the file being read
    scanner,     \* Decompress: the bufio.Scanner
    token,       \* Decompress: scanner.Bytes() after a successful Scan
    handed,      \* Decompress: the tokens written to bc.buffer for decoding
    replayed,    \* Decompress: for each token of handed, what decompressChunk did
    history,     \* the operations that returned, with what they returned
    sess         \* two BigCompressor instances compressing at the same time

planVars == <<walk, bc, dataChunks, pc>>
ioVars == <<fs, out>>
encVars == <<zstdEncode, tarEncode>>
decVars == <<zstdDecode, tarDecode>>
compVars == <<chunkIdx, chunkBytes, quirks>>
scanVars == <<src, scanner, token, handed, replayed>>
vars == <<walk, bc, dataChunks, pc, fs, out, zstdEncode, tarEncode, zstdDecode,
          tarDecode, chunkIdx, chunkBytes, quirks, src, scanner, token, handed,
          replayed, history, sess>>

Nil == "nil"

\* A Go value that may be nil or absent is a sequence of length 0 or 1.
None == <<>>
Some(x) == <<x>>

----------------------------------------------------------------------------
(* Bounds of the model.                                                    *)

MaxFileSize == 3
MaxDirSize == 1
MaxThreshold == 4
\* Operations (Compress, Decompress) one process runs.
MaxOps == 3
\* Frames of one process whose bytes hold the separator or end in a space.
MaxQuirks == 1
\* Length of a file that is at the destination path before Compress.
PriorLen == 40
\* bc.MaxDecompressBufferSize: below and above the scanner's token limit.
SmallBuffer == 8
LargeBuffer == 32
\* bufio.MaxScanTokenSize is 64 * 1024; scaled to the frames of the model.
MaxScanTokenSize == 20
\* Pieces an input file of the scanner is put together from.
MaxPieces == 2

\* Sizes os.FileInfo.Size() reports: small ones, and the sizes of the
\* specification's concrete scenario (5000-byte files, 4096-byte directories
\* as ext4 reports them, threshold 8000).
FileSizes == (0..MaxFileSize) \cup {5000}
DirSizes == (0..MaxDirSize) \cup {4096}
Thresholds == (0..MaxThreshold) \cup {8000}

----------------------------------------------------------------------------
(* The source tree.  Paths are kept relative to src: header.Name is       *)
(* strings.Replace(fi.file, src, "", 1), so the root is "" and a.txt is   *)
(* "/a.txt".                                                               *)

Root == ""
WalkOrder == <<"", "/a.txt", "/b", "/b/b1.txt", "/b/b2.txt">>
DirPaths == {"", "/b"}
FilePaths == {"/a.txt", "/b/b1.txt", "/b/b2.txt"}

\* Trees under the root: a file needs its directory.
Shapes ==
    { S \in SUBSET {"/a.txt", "/b", "/b/b1.txt", "/b/b2.txt"} :
        (S \cap {"/b/b1.txt", "/b/b2.txt"} # {}) => "/b" \in S }

RECURSIVE SelectPaths(_, _)
SelectPaths(order, S) ==
    IF order = <<>> THEN <<>>
    ELSE IF Head(order) \in S THEN <<Head(order)>> \o SelectPaths(Tail(order), S)
    ELSE SelectPaths(Tail(order), S)

\* One call of the walk function: the path, the os.FileInfo (nilInfo when
\* lstat failed and fi is nil) and the error filepath.Walk passes.
Entry(p, sizes, e) ==
    [ file    |-> p,
      isDir   |-> p \in DirPaths,
      size    |-> sizes[p],
      mode    |-> IF p \in DirPaths THEN 493 ELSE 420,
      err     |-> e # Nil,
      nilInfo |-> e = "lstat" ]

\* filepath.Walk on a readable tree: the root first, then lexical pre-order.
MkWalk(S, sizes) ==
    LET ps == SelectPaths(WalkOrder, S \cup {Root})
    IN  [ i \in 1..Len(ps) |-> Entry(ps[i], sizes, Nil) ]

SizeMaps ==
    { [ p \in DirPaths \cup FilePaths |->
          IF p \in DirPaths THEN d[p] ELSE f[p] ] :
        d \in [DirPaths -> DirSizes], f \in [FilePaths -> FileSizes] }

PlanWalks == { MkWalk(S, sizes) : S \in Shapes, sizes \in SizeMaps }

----------------------------------------------------------------------------
(* createChunkInfo                                                         *)

NewChunk(n) == [ chunkNumber |-> n, files |-> <<>>, totalSize |-> 0 ]

\* dataChunks[currentChunk] with fi appended and, unless fi is a directory,
\* its size added to totalSize.  TLA+ sequences start at 1.
AppendToChunk(chunks, cur, fi) ==
    [ chunks EXCEPT ![cur + 1] =
        [ @ EXCEPT !.files = Append(@, fi),
                   !.totalSize = IF fi.isDir THEN @ ELSE @ + fi.size ] ]

\* Mutant: the entry that starts a new chunk is not appended to it.
WalkFn_dropOnNewChunk(st, fi, threshold) ==
    IF fi.nilInfo THEN [ st EXCEPT !.panicked = TRUE ]
    ELSE LET chunk == st.dataChunks[st.currentChunk + 1]
         IN  IF chunk.totalSize + fi.size <= threshold
             THEN [ st EXCEPT !.dataChunks = AppendToChunk(@, st.currentChunk, fi) ]
             ELSE [ st EXCEPT !.currentChunk = @ + 1,
                              !.dataChunks = Append(@, NewChunk(st.currentChunk + 1)) ]

\* Mutant: the fit test is inverted.
WalkFn_invertedFit(st, fi, threshold) ==
    IF fi.nilInfo THEN [ st EXCEPT !.panicked = TRUE ]
    ELSE LET chunk == st.dataChunks[st.currentChunk + 1]
         IN  IF chunk.totalSize + fi.size >= threshold
             THEN [ st EXCEPT !.dataChunks = AppendToChunk(@, st.currentChunk, fi) ]
             ELSE [ st EXCEPT
                      !.currentChunk = @ + 1,
                      !.dataChunks =
                          AppendToChunk(Append(@, NewChunk(st.currentChunk + 1)),
                                        st.currentChunk + 1, fi) ]

\* Mutant: a directory counts as 0 in the fit test.
WalkFn_dirFreeInFit(st, fi, threshold) ==
    IF fi.nilInfo THEN [ st EXCEPT !.panicked = TRUE ]
    ELSE LET chunk == st.dataChunks[st.currentChunk + 1]
             sz == IF fi.isDir THEN 0 ELSE fi.size
         IN  IF chunk.totalSize + sz <= threshold
             THEN [ st EXCEPT !.dataChunks = AppendToChunk(@, st.currentChunk, fi) ]
             ELSE [ st EXCEPT
                      !.currentChunk = @ + 1,
                      !.dataChunks =
                          AppendToChunk(Append(@, NewChunk(st.currentChunk + 1)),
                                        st.currentChunk + 1, fi) ]

\* Mutant: the fit test leaves the entry's size out.
WalkFn_fitWithoutEntry(st, fi, threshold) ==
    IF fi.nilInfo THEN [ st EXCEPT !.panicked = TRUE ]
    ELSE LET chunk == st.dataChunks[st.currentChunk + 1]
         IN  IF chunk.totalSize <= threshold
             THEN [ st EXCEPT !.dataChunks = AppendToChunk(@, st.currentChunk, fi) ]
             ELSE [ st EXCEPT
                      !.currentChunk = @ + 1,
                      !.dataChunks =
                          AppendToChunk(Append(@, NewChunk(st.currentChunk + 1)),
                                        st.currentChunk + 1, fi) ]

\* The walk function (the closure passed to filepath.Walk).  It never looks
\* at err; fi.Size() on a nil fi is a nil-pointer dereference (panic).  The
\* fit test uses fi.Size() also for a directory.
WalkFn(st, fi, threshold) ==
    IF fi.nilInfo THEN [ st EXCEPT !.panicked = TRUE ]
    ELSE LET chunk == st.dataChunks[st.currentChunk + 1]
         IN  IF chunk.totalSize + fi.size <= threshold
             THEN [ st EXCEPT !.dataChunks = AppendToChunk(@, st.currentChunk, fi) ]
             ELSE [ st EXCEPT
                      !.currentChunk = @ + 1,
                      !.dataChunks =
                          AppendToChunk(Append(@, NewChunk(st.currentChunk + 1)),
                                        st.currentChunk + 1, fi) ]

RECURSIVE WalkFrom(_, _, _, _)
WalkFrom(st, w, k, threshold) ==
    IF k > Len(w) \/ st.panicked THEN st
    ELSE WalkFrom(WalkFn(st, w[k], threshold), w, k + 1, threshold)

\* createChunkInfo: chunk 0 exists before the walk; the value filepath.Walk
\* returns is dropped.
createChunkInfo(w, threshold) ==
    WalkFrom([ dataChunks |-> <<NewChunk(0)>>, currentChunk |-> 0,
               panicked |-> FALSE ], w, 1, threshold)

----------------------------------------------------------------------------
(* Files.                                                                  *)

Dst == "dst"
\* dst + "_" + strconv.Itoa(chunkNumber)
ChunkDst(n) == <<"dst_0", "dst_1", "dst_2", "dst_3", "dst_4", "dst_5">>[n + 1]
FileNames == {Dst} \cup { ChunkDst(n) : n \in 0..5 }

NoScanner == [ bufLen |-> 0, start |-> 0, end |-> 0, rd |-> 0, err |-> Nil ]

\* The two instances of the concurrent scenario, before either is made.
Instances == {1, 2}
NoSessions ==
    [ enc  |-> [ w |-> 0, pending |-> <<>>, closed |-> FALSE ],
      inst |-> [ i \in Instances |->
                   [ files |-> <<>>, pos |-> "done", k |-> 0,
                     buffer |-> <<>>, output |-> <<>> ] ] ]

----------------------------------------------------------------------------
(* The planner on its own: any tree, any threshold.                        *)

NewBigCompressor(threshold, maxBuf, combine) ==
    [ MaxPrecompressChunkSize |-> threshold,
      MaxDecompressBufferSize |-> maxBuf,
      CombineChunk            |-> combine,
      buffer                  |-> None,
      compressFile            |-> None ]

\* A fresh process: the package variables are nil, no operation has run.
ProcessStart ==
    /\ out = [ p \in FilePaths |-> None ]
    /\ zstdEncode = Nil
    /\ tarEncode = [ set |-> FALSE, err |-> Nil ]
    /\ zstdDecode = Nil
    /\ tarDecode = [ set |-> FALSE, err |-> Nil ]
    /\ chunkIdx = 0
    /\ chunkBytes = <<>>
    /\ quirks = 0
    /\ src = Nil
    /\ scanner = NoScanner
    /\ token = None
    /\ handed = <<>>
    /\ replayed = <<>>
    /\ history = <<>>
    /\ sess = NoSessions

InitPlan ==
    /\ walk \in PlanWalks
    /\ \E t \in Thresholds : bc = NewBigCompressor(t, 0, TRUE)
    /\ dataChunks = <<>>
    /\ pc = "start"
    /\ fs = [ n \in FileNames |-> None ]
    /\ ProcessStart

PlanChunks ==
    /\ pc = "start"
    /\ dataChunks' = createChunkInfo(walk, bc.MaxPrecompressChunkSize).dataChunks
    /\ pc' = "planned"
    /\ UNCHANGED <<walk, bc, ioVars, encVars, decVars, compVars, scanVars, history,
                   sess>>

NextPlan == PlanChunks

SpecPlan == InitPlan /\ [][NextPlan]_vars

----------------------------------------------------------------------------
(* Planner claims.                                                         *)

RECURSIVE ConcatFiles(_)
ConcatFiles(chunks) ==
    IF chunks = <<>> THEN <<>>
    ELSE Head(chunks).files \o ConcatFiles(Tail(chunks))

\* C8: the plan is an order-preserving partition of the walk: the chunks'
\* entry lists, concatenated in chunk order, are the walk itself (so every
\* walked entry is in exactly one chunk, once, and none is split or
\* dropped), and the chunk at list position i carries chunkNumber i.
PlanIsPartition ==
    pc = "planned" =>
        /\ ConcatFiles(dataChunks) = walk
        /\ \A i \in 1..Len(dataChunks) : dataChunks[i].chunkNumber = i - 1

\* Witness of C8: a plan of several chunks, one of them with two entries.
PlanIsPartitionWitness ==
    /\ pc = "planned"
    /\ Len(dataChunks) >= 3
    /\ \E i \in 1..Len(dataChunks) : Len(dataChunks[i].files) >= 2

\* C9: with a larger threshold the same walk never gives more chunks.
ChunkCountMonotone ==
    pc = "planned" =>
        \A t2 \in Thresholds :
            bc.MaxPrecompressChunkSize <= t2 =>
                Len(createChunkInfo(walk, t2).dataChunks) <= Len(dataChunks)

\* Witness of C9: a larger threshold that gives strictly fewer chunks.
ChunkCountMonotoneWitness ==
    /\ pc = "planned"
    /\ \E t2 \in Thresholds :
         /\ bc.MaxPrecompressChunkSize < t2
         /\ Len(createChunkInfo(walk, t2).dataChunks) < Len(dataChunks)
         /\ Len(createChunkInfo(walk, t2).dataChunks) >= 2

\* The concrete scenario: a.txt, b/b1.txt, b/b2.txt of 5000 bytes each,
\* threshold 8000.
IsScenario ==
    /\ Len(walk) = 5
    /\ \A i \in 1..5 : walk[i].file = WalkOrder[i]
    /\ \A i \in {2, 4, 5} : walk[i].size = 5000
    /\ bc.MaxPrecompressChunkSize = 8000

ChunkPaths(c) == [ i \in 1..Len(c.files) |-> c.files[i].file ]

----------------------------------------------------------------------------
(* Bytes.  A byte is a number 0..255.  The compressed bytes that carry one *)
(* tar record (header and file content) are opaque: they are one symbol    *)
(* above 255 that names the record, so that decoding can be computed.      *)

\* chunkseparator: "_cHuNK_"
chunkseparator == <<95, 99, 72, 117, 78, 75, 95>>

Min(a, b) == IF a <= b THEN a ELSE b
Max(a, b) == IF a >= b THEN a ELSE b

\* bytes.Index: the first position (from 0) of sep in data, or -1.
Index(data, sep) ==
    LET hits == { i \in 0..(Len(data) - Len(sep)) :
                    SubSeq(data, i + 1, i + Len(sep)) = sep }
    IN  IF hits = {} THEN -1 ELSE CHOOSE i \in hits : \A j \in hits : i <= j

\* The ASCII white space bytes.TrimSpace cuts: \t \n \v \f \r and space.
IsSpace(b) == b \in {9, 10, 11, 12, 13, 32}

\* bytes.TrimSpace: leading and trailing white space cut; nil when nothing
\* is left.
TrimSpace(data) ==
    LET keep == { i \in 1..Len(data) : ~IsSpace(data[i]) }
    IN  IF keep = {} THEN None
        ELSE LET lo == CHOOSE i \in keep : \A j \in keep : i <= j
                 hi == CHOOSE i \in keep : \A j \in keep : i >= j
             IN  Some(SubSeq(data, lo, hi))

\* A write of data at offset off of a file opened without O_TRUNC and
\* without O_APPEND: bytes beyond the write stay.
WriteAt(old, off, data) ==
    [ i \in 1..Max(Len(old), off + Len(data)) |->
        IF i > off /\ i <= off + Len(data) THEN data[i - off] ELSE old[i] ]

----------------------------------------------------------------------------
(* The zstd frame of a chunk's tar stream.                                 *)

\* Magic number 0xFD2FB528 (little endian), frame header descriptor (content
\* checksum flag set), window descriptor.
FrameHeader == <<40, 181, 47, 253, 4, 88>>
\* The header of the last, empty block.
LastBlock == 999
\* The first three bytes of the content checksum.
ChecksumHead == <<17, 34, 51>>

PathIdx(p) == CHOOSE i \in 1..Len(WalkOrder) : WalkOrder[i] = p

\* The compressed bytes of one tar record: header (name, type flag, mode,
\* size) and, for a regular file, its content.  tarEncode.Flush writes no
\* end-of-archive trailer.
Record(fi) == 1000 + 2 * PathIdx(fi.file) + (IF fi.isDir THEN 1 ELSE 0)

IsRecord(b) == b >= 1000
RecordName(b) == WalkOrder[(b - 1000) \div 2]
RecordIsDir(b) == (b - 1000) % 2 = 1

\* What a frame's bytes may look like, the content being what it is: nothing
\* special; the last checksum byte is a space; the compressed data holds the
\* byte sequence of the chunk separator.
Variants == {"plain", "space", "marker"}

\* The bytes zstdEncode.Close leaves in the buffer after the records of a
\* chunk were written through tarEncode: nothing at all when nothing was
\* written (the encoder emits no frame for empty input).
Frame(files, variant) ==
    IF files = <<>> THEN <<>>
    ELSE FrameHeader
         \o [ i \in 1..Len(files) |-> Record(files[i]) ]
         \o (IF variant = "marker" THEN chunkseparator ELSE <<>>)
         \o <<LastBlock>>
         \o ChecksumHead
         \o <<IF variant = "space" THEN 32 ELSE 65>>

\* Decoding a token as a zstd frame holding a tar stream: the records that
\* come out before the stream ends, and how it ends: "EOF" for a whole frame,
\* "error" for a bad magic number or a truncated frame.  An empty input is
\* an empty stream.
DecodeFrame(data) ==
    LET n == Len(data)
        h == Len(FrameHeader)
        ends == { i \in (h + 1)..n : data[i] = LastBlock }
        stop == IF ends = {} THEN n + 1
                ELSE CHOOSE i \in ends : \A j \in ends : i <= j
        recs == SelectSeq(SubSeq(data, h + 1, stop - 1), IsRecord)
    IN  IF n = 0 THEN [ records |-> <<>>, end |-> "EOF" ]
        ELSE IF n < h \/ SubSeq(data, 1, h) # FrameHeader
        THEN [ records |-> <<>>, end |-> "error" ]
        ELSE IF ends = {} \/ n # stop + 4
        THEN [ records |-> recs, end |-> "error" ]
        ELSE [ records |-> recs, end |-> "EOF" ]

----------------------------------------------------------------------------
(* Compress                                                                *)

Returned(op, ret) == Append(history, [ op |-> op, ret |-> ret ])

\* Lines 40-59: the plan, the destination file (opened with
\* O_CREATE|O_RDWR: offset 0, content kept), the buffer.  A nil fi in the
\* walk function ends the process.
StartCompress ==
    /\ pc = "idle"
    /\ Len(history) < MaxOps
    /\ UNCHANGED sess
    /\ LET plan == createChunkInfo(walk, bc.MaxPrecompressChunkSize)
       IN  IF plan.panicked
           THEN /\ pc' = "crashed"
                /\ history' = Returned("Compress", "panic")
                /\ UNCHANGED <<walk, bc, dataChunks, ioVars, encVars, decVars,
                               compVars, scanVars>>
           ELSE /\ dataChunks' = plan.dataChunks
                /\ bc' = [ bc EXCEPT
                             !.compressFile =
                                 IF bc.CombineChunk
                                 THEN Some([ name |-> Dst, off |-> 0 ]) ELSE @,
                             !.buffer = IF @ = None THEN Some(<<>>) ELSE @ ]
                /\ fs' = IF bc.CombineChunk /\ fs[Dst] = None
                         THEN [ fs EXCEPT ![Dst] = Some(<<>>) ] ELSE fs
                /\ chunkIdx' = 0
                /\ chunkBytes' = <<>>
                /\ pc' = "compressLoop"
                /\ UNCHANGED <<walk, out, encVars, decVars, quirks, scanVars,
                               history>>

\* compressChunkNoAlloc: the shared encoder is pointed at bc.buffer and the
\* chunk's frame is written to it, after whatever the buffer holds.
compressChunkNoAlloc(buffer, chunk, variant) == buffer \o Frame(chunk.files, variant)

\* writeChunk: O_CREATE|O_RDWR, no O_TRUNC; io.Copy drains the buffer.
writeChunk(file, buffer) ==
    Some(WriteAt(IF file = None THEN <<>> ELSE file[1], 0, buffer))

\* writeBufferToFile: the buffer's bytes, then the separator, at the file's
\* offset.
writeBufferToFile(file, off, buffer) ==
    Some(WriteAt(file[1], off, buffer \o chunkseparator))

\* One pass of the loop of lines 60-77.
CompressChunk ==
    /\ pc = "compressLoop"
    /\ chunkIdx < Len(dataChunks)
    /\ \E variant \in Variants :
         LET dChunk == dataChunks[chunkIdx + 1]
             buffer == compressChunkNoAlloc(bc.buffer[1], dChunk, variant)
             off == bc.compressFile[1].off
         IN  /\ variant # "plain" => (quirks < MaxQuirks /\ dChunk.files # <<>>)
             /\ quirks' = IF variant = "plain" THEN quirks ELSE quirks + 1
             /\ chunkBytes' = Append(chunkBytes, Frame(dChunk.files, variant))
             /\ IF ~bc.CombineChunk
                THEN /\ fs' = [ fs EXCEPT ![ChunkDst(dChunk.chunkNumber)] =
                                  writeChunk(@, buffer) ]
                     /\ bc' = [ bc EXCEPT !.buffer = Some(<<>>) ]
                ELSE /\ fs' = [ fs EXCEPT ![Dst] =
                                  writeBufferToFile(@, off, buffer) ]
                     /\ bc' = [ bc EXCEPT
                                  !.buffer = Some(<<>>),
                                  !.compressFile =
                                      Some([ name |-> Dst,
                                             off |-> off + Len(buffer)
                                                     + Len(chunkseparator) ]) ]
    /\ zstdEncode' = "set"
    /\ tarEncode' = [ set |-> TRUE, err |-> Nil ]
    /\ chunkIdx' = chunkIdx + 1
    /\ UNCHANGED <<walk, dataChunks, pc, out, decVars, scanVars, history, sess>>

\* Line 78: the loop is over, Compress returns nil.
CompressReturn ==
    /\ pc = "compressLoop"
    /\ chunkIdx = Len(dataChunks)
    /\ pc' = "idle"
    /\ history' = Returned("Compress", Nil)
    /\ UNCHANGED <<walk, bc, dataChunks, ioVars, encVars, decVars, compVars,
                   scanVars, sess>>

----------------------------------------------------------------------------
(* Decompress                                                              *)

\* len(n) > 10: a shorter token is not decoded.
MinTokenLen == 10

\* The split function of lines 98-118.
scanFn(data, atEOF) ==
    LET commaidx == Index(data, chunkseparator)
    IN  IF commaidx > 0
        THEN [ advance |-> commaidx + Len(chunkseparator),
               token   |-> TrimSpace(SubSeq(data, 1, commaidx)) ]
        ELSE IF atEOF /\ Len(data) > 0
        THEN [ advance |-> Len(data), token |-> TrimSpace(data) ]
        ELSE [ advance |-> 0, token |-> None ]

\* Mutant: the end of the file is never noticed.
ScanFill_noEOF(s, file) ==
    LET n == Min(s.bufLen - s.end, Len(file) - s.rd)
    IN  [ s EXCEPT !.end = @ + n, !.rd = @ + n ]

\* bufio.Scanner.Scan when the split function asked for more data: the data
\* is moved to the front of the buffer if that makes room, a full buffer is
\* doubled up to the token limit (ErrTooLong at the limit), and one Read
\* fills the free space (io.EOF when the file has no more bytes).  The
\* buffer sizes of the model are positive.
ScanFill(s, file) ==
    LET moved == IF s.start > 0 /\ (s.end = s.bufLen \/ s.start > s.bufLen \div 2)
                 THEN [ s EXCEPT !.end = @ - s.start, !.start = 0 ]
                 ELSE s
        full == moved.end = moved.bufLen
        grown == IF full
                 THEN [ moved EXCEPT !.bufLen = Min(2 * @, MaxScanTokenSize),
                                     !.end = @ - moved.start,
                                     !.start = 0 ]
                 ELSE moved
        n == Min(grown.bufLen - grown.end, Len(file) - grown.rd)
    IN  IF full /\ moved.bufLen >= MaxScanTokenSize
        THEN [ moved EXCEPT !.err = "ErrTooLong" ]
        ELSE IF n = 0 THEN [ grown EXCEPT !.err = "EOF" ]
        ELSE [ grown EXCEPT !.end = @ + n, !.rd = @ + n ]

\* The bytes the scanner holds: s.buf[s.start:s.end].
ScanData(s, file) == SubSeq(file, s.rd - (s.end - s.start) + 1, s.rd)

\* Lines 82-97 and 119: the buffer is reset, the file opened, the scanner
\* given a buffer of MaxDecompressBufferSize bytes and the token limit
\* bufio.MaxScanTokenSize.
StartDecompress ==
    /\ pc = "idle"
    /\ Len(history) < MaxOps
    /\ \E s \in IF bc.CombineChunk THEN {Dst} ELSE {ChunkDst(0), ChunkDst(1)} :
         /\ bc' = [ bc EXCEPT !.buffer = Some(<<>>) ]
         /\ IF fs[s] = None
            THEN /\ history' = Returned("Decompress", "error")
                 /\ UNCHANGED <<pc, src, scanner, token, handed, replayed>>
            ELSE /\ src' = s
                 /\ scanner' = [ bufLen |-> bc.MaxDecompressBufferSize,
                                 start |-> 0, end |-> 0, rd |-> 0, err |-> Nil ]
                 /\ token' = None
                 /\ handed' = <<>>
                 /\ replayed' = <<>>
                 /\ pc' = "scan"
                 /\ UNCHANGED history
    /\ UNCHANGED <<walk, dataChunks, ioVars, encVars, decVars, compVars, sess>>

\* One round of the loop inside scanner.Scan(): the split function is tried
\* on what is buffered; without a token the scanner stops at an error (EOF
\* included) or reads more.  When Scan returns false the loop of line 120
\* ends and Decompress returns nil: scanner.Err() is never looked at.
ScanIter ==
    /\ pc = "scan"
    /\ LET s == scanner
           file == fs[src][1]
           try == s.end > s.start \/ s.err # Nil
           r == scanFn(ScanData(s, file), s.err # Nil)
           s1 == IF try THEN [ s EXCEPT !.start = @ + r.advance ] ELSE s
           s2 == ScanFill(s1, file)
       IN  IF try /\ r.token # None
           THEN /\ scanner' = s1
                /\ token' = r.token
                /\ pc' = "token"
                /\ UNCHANGED history
           ELSE IF s.err # Nil
           THEN /\ scanner' = [ s1 EXCEPT !.start = 0, !.end = 0 ]
                /\ pc' = "idle"
                /\ history' = Returned("Decompress", Nil)
                /\ UNCHANGED token
           ELSE /\ scanner' = s2
                /\ UNCHANGED token
                /\ IF s2.err = "ErrTooLong"
                   THEN /\ pc' = "idle"
                        /\ history' = Returned("Decompress", Nil)
                   ELSE /\ pc' = "scan"
                        /\ UNCHANGED history
    /\ UNCHANGED <<walk, bc, dataChunks, ioVars, encVars, decVars, compVars,
                   src, handed, replayed, sess>>

\* The replay of lines 150-183: a regular file is created under dst with the
\* header's mode and the record's content; a directory record writes
\* nothing.
RECURSIVE Replay(_, _)
Replay(tree, records) ==
    IF records = <<>> THEN tree
    ELSE LET h == Head(records)
             name == RecordName(h)
         IN  Replay(IF RecordIsDir(h) THEN tree
                    ELSE [ tree EXCEPT ![name] =
                             Some([ data |-> name, mode |-> 420 ]) ],
                    Tail(records))

\* decompressChunk: the shared zstd decoder is pointed at bc.buffer (made on
\* first use, Reset afterwards); the shared tar reader is made once and never
\* reset, and tar.Reader.Next returns its last error, io.EOF included, from
\* then on.  The result: the records replayed and the state the tar reader
\* is left in ("EOF": decompressChunk returns nil, else it returns the error).
decompressChunk(buffer, decoder, reader) ==
    LET sticky == decoder # Nil /\ reader.err # Nil
        d == DecodeFrame(buffer)
    IN  [ records |-> IF sticky THEN <<>> ELSE d.records,
          end     |-> IF sticky THEN reader.err ELSE d.end ]

\* filepath.Dir(target), relative to the destination directory.
Dir(p) == IF p \in {"/b/b1.txt", "/b/b2.txt"} THEN "/b" ELSE Root

\* os.Stat(dirName) succeeds.  The destination directory does not exist
\* before the first Decompress; a directory is there once a file was created
\* in it or below it.
DirExists(tree, d) ==
    \E p \in FilePaths : tree[p] # None /\ (d = Root \/ Dir(p) = d)

\* The records of a token at which line 166 calls os.MkdirAll.
MkdirAt(tree, records) ==
    { i \in 1..Len(records) :
        /\ ~RecordIsDir(records[i])
        /\ ~DirExists(Replay(tree, SubSeq(records, 1, i - 1)),
                      Dir(RecordName(records[i]))) }

\* What bc.buffer holds when decompressChunk returned an error: the decoder
\* either took the buffer's bytes through Bytes(), which consumes nothing, or
\* read them up to where it failed: the magic number (4 bytes) of a frame
\* that is none, the whole input of a truncated frame.
Unread(buffer) ==
    IF Len(buffer) >= Len(FrameHeader)
       /\ SubSeq(buffer, 1, Len(FrameHeader)) = FrameHeader
    THEN <<>>
    ELSE SubSeq(buffer, Min(4, Len(buffer)) + 1, Len(buffer))

\* Mutant: a decoding error does not end the loop of line 120.
HandleToken_skipFailedToken ==
    /\ pc = "token"
    /\ LET n == token[1]
           buffer == bc.buffer[1] \o n
           r == decompressChunk(buffer, zstdDecode, tarDecode)
       IN  IF Len(n) > MinTokenLen
           THEN /\ handed' = Append(handed, n)
                /\ replayed' = Append(replayed, r)
                /\ out' = Replay(out, r.records)
                /\ zstdDecode' = "set"
                /\ tarDecode' = [ set |-> TRUE, err |-> r.end ]
                /\ bc' = [ bc EXCEPT !.buffer = Some(<<>>) ]
                /\ pc' = "scan"
                /\ UNCHANGED history
           ELSE /\ pc' = "scan"
                /\ UNCHANGED <<bc, out, decVars, handed, replayed, history>>
    /\ UNCHANGED <<walk, dataChunks, fs, encVars, compVars, src, scanner, token,
                   sess>>

\* The body of the loop of lines 120-134 for one token.  os.MkdirAll may
\* fail where it is called; line 168 then panics, with the records before
\* that one replayed.
HandleToken ==
    /\ pc = "token"
    /\ LET n == token[1]
           buffer == bc.buffer[1] \o n
           r == decompressChunk(buffer, zstdDecode, tarDecode)
           mk == MkdirAt(out, r.records)
           first == CHOOSE i \in mk : \A j \in mk : i <= j
       IN  IF Len(n) > MinTokenLen
           THEN /\ handed' = Append(handed, n)
                /\ zstdDecode' = "set"
                /\ \E mkdirFails \in BOOLEAN :
                     /\ mkdirFails => mk # {}
                     /\ IF mkdirFails
                        THEN /\ replayed' =
                                  Append(replayed,
                                         [ records |-> SubSeq(r.records, 1, first - 1),
                                           end |-> "panic" ])
                             /\ out' = Replay(out, SubSeq(r.records, 1, first - 1))
                             /\ tarDecode' = [ set |-> TRUE, err |-> Nil ]
                             /\ bc' = [ bc EXCEPT !.buffer = Some(buffer) ]
                             /\ pc' = "crashed"
                             /\ history' = Returned("Decompress", "panic")
                        ELSE /\ replayed' = Append(replayed, r)
                             /\ out' = Replay(out, r.records)
                             /\ tarDecode' = [ set |-> TRUE, err |-> r.end ]
                             /\ IF r.end = "EOF"
                                THEN /\ bc' = [ bc EXCEPT !.buffer = Some(<<>>) ]
                                     /\ pc' = "scan"
                                     /\ UNCHANGED history
                                ELSE /\ \E left \in {buffer, Unread(buffer)} :
                                          bc' = [ bc EXCEPT !.buffer = Some(left) ]
                                     /\ pc' = "idle"
                                     /\ history' = Returned("Decompress", "error")
           ELSE /\ pc' = "scan"
                /\ UNCHANGED <<bc, out, decVars, handed, replayed, history>>
    /\ UNCHANGED <<walk, dataChunks, fs, encVars, compVars, src, scanner, token,
                   sess>>

----------------------------------------------------------------------------
(* One process: a source tree, a BigCompressor, and up to MaxOps           *)
(* operations on it, one after the other.                                  *)

MainShapes == { {}, {"/a.txt"}, {"/a.txt", "/b", "/b/b1.txt", "/b/b2.txt"} }
MainSizes(d) == [ p \in DirPaths \cup FilePaths |-> IF p \in DirPaths THEN d ELSE 5000 ]
MainThresholds == {4000, 8000}

\* Walks with an error: src does not exist (lstat fails, fi is nil); the
\* directory b cannot be read (the walk function gets b's fi and the error,
\* and b is not descended into).
ErrorWalks ==
    { <<Entry(Root, MainSizes(4096), "lstat")>>,
      <<Entry(Root, MainSizes(4096), Nil), Entry("/a.txt", MainSizes(4096), Nil),
        Entry("/b", MainSizes(4096), "readdir")>> }

MainWalks ==
    { MkWalk(S, MainSizes(d)) : S \in MainShapes, d \in {0, 4096} } \cup ErrorWalks

\* What may be at dst (at dst_0 in per-chunk mode) before the first
\* operation: nothing, a short file, a long one.
PriorFiles == { None, Some(<<120, 120, 120>>), Some([ i \in 1..PriorLen |-> 120 ]) }

Init ==
    /\ walk \in MainWalks
    /\ \E t \in MainThresholds, m \in {SmallBuffer, LargeBuffer}, c \in BOOLEAN :
         bc = NewBigCompressor(t, m, c)
    /\ dataChunks = <<>>
    /\ pc = "idle"
    /\ \E prior \in PriorFiles :
         fs = [ n \in FileNames |-> IF n \in {Dst, ChunkDst(0)} THEN prior ELSE None ]
    /\ ProcessStart

Next ==
    \/ StartCompress
    \/ CompressChunk
    \/ CompressReturn
    \/ StartDecompress
    \/ ScanIter
    \/ HandleToken

Spec == Init /\ [][Next]_vars

----------------------------------------------------------------------------
(* Decompress on its own: any input file.  The process runs on, so a       *)
(* Decompress that was called takes its next step.                         *)

\* A chunk as Compress writes it, a frame, the separator, a few bytes, white
\* space, and bytes longer than the scanner's token limit without a
\* separator in them.
Pieces ==
    { Frame(<<Entry("/a.txt", MainSizes(0), Nil)>>, "plain") \o chunkseparator,
      Frame(<<Entry("/a.txt", MainSizes(0), Nil)>>, "plain"),
      chunkseparator,
      <<120, 120, 120>>,
      <<32, 10>>,
      [ i \in 1..(MaxScanTokenSize + 2) |-> 121 ] }

RECURSIVE Flatten(_)
Flatten(ps) == IF ps = <<>> THEN <<>> ELSE Head(ps) \o Flatten(Tail(ps))

\* Every finite input of up to MaxPieces pieces, the empty file included.
ScanInputs ==
    { Flatten(ps) : ps \in UNION { [1..n -> Pieces] : n \in 0..MaxPieces } }

\* Decompress was called MaxOps - 1 times before the input file was there
\* (it returned the error of os.Open, line 88); the file is there now.
InitScan ==
    /\ walk = <<>>
    /\ \E m \in {SmallBuffer, LargeBuffer} :
         bc = [ NewBigCompressor(8000, m, TRUE) EXCEPT !.buffer = Some(<<>>) ]
    /\ dataChunks = <<>>
    /\ pc = "idle"
    /\ \E input \in ScanInputs :
         fs = [ n \in FileNames |-> IF n = Dst THEN Some(input) ELSE None ]
    /\ out = [ p \in FilePaths |-> None ]
    /\ zstdEncode = Nil
    /\ tarEncode = [ set |-> FALSE, err |-> Nil ]
    /\ zstdDecode = Nil
    /\ tarDecode = [ set |-> FALSE, err |-> Nil ]
    /\ chunkIdx = 0
    /\ chunkBytes = <<>>
    /\ quirks = 0
    /\ src = Nil
    /\ scanner = NoScanner
    /\ token = None
    /\ handed = <<>>
    /\ replayed = <<>>
    /\ history = [ i \in 1..(MaxOps - 1) |-> [ op |-> "Decompress", ret |-> "error" ] ]
    /\ sess = NoSessions

NextScan ==
    \/ StartDecompress
    \/ ScanIter
    \/ HandleToken

SpecScan ==
    InitScan /\ [][NextScan]_vars /\ WF_vars(ScanIter) /\ WF_vars(HandleToken)

----------------------------------------------------------------------------
(* Two BigCompressor instances, each in compressChunkNoAlloc for one chunk *)
(* of its own, in two goroutines.  zstdEncode and tarEncode are package    *)
(* variables: there is one encoder, sess.enc, with the buffer it writes to *)
(* (w), the records written to it and not yet flushed (pending), and       *)
(* whether it was closed.  A step is one call into the library; the        *)
(* unsynchronised accesses inside the calls interleave more finely still.  *)

\* The chunk of each instance: instance 1 compresses a.txt, instance 2 the
\* directory b.
TwoChunks(i) ==
    IF i = 1
    THEN { <<Entry("/a.txt", MainSizes(0), Nil)>>,
           <<Entry(Root, MainSizes(0), Nil), Entry("/a.txt", MainSizes(0), Nil)>> }
    ELSE { <<Entry("/b/b1.txt", MainSizes(0), Nil)>>,
           <<Entry("/b", MainSizes(0), Nil), Entry("/b/b1.txt", MainSizes(0), Nil)>>,
           <<Entry("/b", MainSizes(0), Nil), Entry("/b/b1.txt", MainSizes(0), Nil),
             Entry("/b/b2.txt", MainSizes(0), Nil)>> }

\* What the two-instance steps leave alone.
twoRest == <<walk, bc, dataChunks, pc, ioVars, decVars, compVars, scanVars, history>>

InitTwo ==
    /\ walk = <<>>
    /\ bc = NewBigCompressor(8000, LargeBuffer, TRUE)
    /\ dataChunks = <<>>
    /\ pc = "concurrent"
    /\ fs = [ n \in FileNames |-> None ]
    /\ out = [ p \in FilePaths |-> None ]
    /\ zstdEncode = Nil
    /\ tarEncode = [ set |-> FALSE, err |-> Nil ]
    /\ zstdDecode = Nil
    /\ tarDecode = [ set |-> FALSE, err |-> Nil ]
    /\ chunkIdx = 0
    /\ chunkBytes = <<>>
    /\ quirks = 0
    /\ src = Nil
    /\ scanner = NoScanner
    /\ token = None
    /\ handed = <<>>
    /\ replayed = <<>>
    /\ history = <<>>
    /\ \E c1 \in TwoChunks(1), c2 \in TwoChunks(2) :
         sess = [ NoSessions EXCEPT
                    !.inst = [ i \in Instances |->
                                 [ files  |-> IF i = 1 THEN c1 ELSE c2,
                                   pos    |-> "start",
                                   k      |-> 0,
                                   buffer |-> <<>>,
                                   output |-> <<>> ] ] ]

\* Lines 300-305: the encoder is made on bc.buffer if there is none, and
\* otherwise Reset to bc.buffer; what it held is dropped.
TwoReset(i) ==
    /\ sess.inst[i].pos = "start"
    /\ sess' = [ sess EXCEPT !.enc = [ w |-> i, pending |-> <<>>, closed |-> FALSE ],
                             !.inst[i].pos = "write" ]
    /\ zstdEncode' = "set"
    /\ tarEncode' = [ set |-> TRUE, err |-> Nil ]
    /\ UNCHANGED twoRest

\* Lines 307-330 for one entry: header and content go through tarEncode to
\* the one encoder; a closed encoder refuses the write (line 317 or 326
\* returns the error).
TwoWrite(i) ==
    /\ sess.inst[i].pos = "write"
    /\ sess.inst[i].k < Len(sess.inst[i].files)
    /\ sess' = IF sess.enc.closed
               THEN [ sess EXCEPT !.inst[i].pos = "failed" ]
               ELSE [ sess EXCEPT
                        !.enc.pending = Append(@, sess.inst[i].files[sess.inst[i].k + 1]),
                        !.inst[i].k = @ + 1 ]
    /\ UNCHANGED <<encVars, twoRest>>

\* Lines 333-340: tarEncode.Flush and zstdEncode.Close write the frame of
\* what the encoder holds to the buffer the encoder was last pointed at.
\* Close of a closed encoder writes nothing.
TwoClose(i) ==
    /\ sess.inst[i].pos = "write"
    /\ sess.inst[i].k = Len(sess.inst[i].files)
    /\ sess' = IF sess.enc.closed
               THEN [ sess EXCEPT !.inst[i].pos = "store" ]
               ELSE [ sess EXCEPT
                        !.inst[sess.enc.w].buffer = @ \o Frame(sess.enc.pending, "plain"),
                        !.enc.pending = <<>>,
                        !.enc.closed = TRUE,
                        !.inst[i].pos = "store" ]
    /\ UNCHANGED <<encVars, twoRest>>

\* Lines 71 and 76: the instance's buffer and the separator are written to
\* its output file, and the buffer is reset.
TwoStore(i) ==
    /\ sess.inst[i].pos = "store"
    /\ sess' = [ sess EXCEPT
                   !.inst[i].output = @ \o sess.inst[i].buffer \o chunkseparator,
                   !.inst[i].buffer = <<>>,
                   !.inst[i].pos = "done" ]
    /\ UNCHANGED <<encVars, twoRest>>

NextTwo ==
    \/ \E i \in Instances : TwoReset(i)
    \/ \E i \in Instances : TwoWrite(i)
    \/ \E i \in Instances : TwoClose(i)
    \/ \E i \in Instances : TwoStore(i)

SpecTwo == InitTwo /\ [][NextTwo]_vars

----------------------------------------------------------------------------
(* Claims about Compress and Decompress.                                   *)

Last(h) == h[Len(h)]

\* An operation op has just returned.
JustReturned(op) ==
    /\ pc \in {"idle", "crashed"}
    /\ history # <<>>
    /\ Last(history).op = op

\* Decompress has returned, and it was run right after a Compress that
\* returned nil, in combined mode.
CompressedThenDecompressed ==
    /\ JustReturned("Decompress")
    /\ bc.CombineChunk
    /\ Len(history) = 2
    /\ history[1] = [ op |-> "Compress", ret |-> Nil ]

\* compressed_chunk_0 + MARKER + ... + compressed_chunk_N + MARKER
RECURSIVE JoinWithMarker(_)
JoinWithMarker(chunks) ==
    IF chunks = <<>> THEN <<>>
    ELSE Head(chunks) \o chunkseparator \o JoinWithMarker(Tail(chunks))

IsPrefix(a, b) == Len(a) <= Len(b) /\ SubSeq(b, 1, Len(a)) = a

HoldsMarker(data) == Index(data, chunkseparator) >= 0

\* The destination held nothing before Compress, every chunk has entries,
\* no frame holds the marker or ends in white space, the scanner's window
\* was large enough, and no directory creation failed.
PlainArchive ==
    /\ fs[Dst] = Some(JoinWithMarker(chunkBytes))
    /\ quirks = 0
    /\ \A i \in 1..Len(chunkBytes) : chunkBytes[i] # <<>>
    /\ scanner.err # "ErrTooLong"
    /\ Last(history).ret # "panic"

\* C1: after Compress in combined mode and then Decompress of its output,
\* every regular file of the tree is under the destination directory with
\* its content and its permission bits, whatever the number of chunks.
\* Stated for the plainest archives only.
RoundTripRestoresTree ==
    (CompressedThenDecompressed /\ PlainArchive) =>
        /\ Last(history).ret = Nil
        /\ \A i \in 1..Len(walk) :
             ~walk[i].isDir =>
                 out[walk[i].file] =
                     Some([ data |-> walk[i].file, mode |-> walk[i].mode ])

\* C2: after a successful combined-mode Compress the destination file is
\* exactly chunk 0, marker, chunk 1, marker, ..., chunk N, marker, whatever
\* was at the destination path before.
CombinedFileIsChunksAndMarkers ==
    (JustReturned("Compress") /\ Last(history).ret = Nil /\ bc.CombineChunk) =>
        fs[Dst] = Some(JoinWithMarker(chunkBytes))

\* C3: after a successful per-chunk-mode Compress the file <destination>_<i>
\* holds exactly the compressed bytes of chunk i, for every chunk i.
ChunkFileIsChunkBytes ==
    (JustReturned("Compress") /\ Last(history).ret = Nil /\ ~bc.CombineChunk) =>
        \A i \in 1..Len(dataChunks) :
            fs[ChunkDst(dataChunks[i].chunkNumber)] = Some(chunkBytes[i])

\* The tokens handed to the decoder are the chunks, in order: all of them
\* when Decompress returned nil, the first ones when a decoding error ended
\* it.
TokensAreChunks ==
    /\ IsPrefix(handed, chunkBytes)
    /\ Last(history).ret = Nil => handed = chunkBytes

\* C4: for an input c0, marker, c1, marker, ..., cN, marker in which no ci
\* holds the marker, the tokens handed to the decoder are c0, c1, ..., cN,
\* byte for byte and in that order (a marker at position 0 of the window
\* included).
ScannerTokensAreChunks ==
    ( /\ CompressedThenDecompressed
      /\ fs[Dst] = Some(JoinWithMarker(chunkBytes))
      /\ \A i \in 1..Len(chunkBytes) : ~HoldsMarker(chunkBytes[i])
      /\ scanner.err # "ErrTooLong" )
    => TokensAreChunks

\* C5: a chunk whose compressed bytes hold the separator sequence is still
\* delivered to the decoder as one token, and the chunks after it unchanged.
\* Stated for archives without an empty chunk, read with a window that was
\* large enough.
MarkerCollisionIsHarmless ==
    ( /\ CompressedThenDecompressed
      /\ fs[Dst] = Some(JoinWithMarker(chunkBytes))
      /\ \E i \in 1..Len(chunkBytes) : HoldsMarker(chunkBytes[i])
      /\ \A i \in 1..Len(chunkBytes) : chunkBytes[i] # <<>>
      /\ scanner.err # "ErrTooLong" )
    => TokensAreChunks

\* C6: when the archive holds a chunk larger than MaxDecompressBufferSize
\* and the scanner finds no marker within its bounded window (the buffer is
\* full at the token limit), Decompress returns an error.  Stated for
\* archives of non-empty chunks without a marker or white space in them.
ScanOverflowIsReported ==
    ( /\ CompressedThenDecompressed
      /\ fs[Dst] = Some(JoinWithMarker(chunkBytes))
      /\ quirks = 0
      /\ \A i \in 1..Len(chunkBytes) : chunkBytes[i] # <<>>
      /\ \E i \in 1..Len(chunkBytes) :
           Len(chunkBytes[i]) > bc.MaxDecompressBufferSize
      /\ scanner.err = "ErrTooLong" )
    => Last(history).ret = "error"

\* C7: if the walk reports an error for an entry, Compress returns an error:
\* it does not panic and does not return success.
WalkErrorIsReturned ==
    (JustReturned("Compress") /\ \E i \in 1..Len(walk) : walk[i].err) =>
        Last(history).ret = "error"

----------------------------------------------------------------------------
(* Empty input.                                                            *)

\* The source directory is empty: the walk is its root alone.
IsEmptyTree == Len(walk) = 1 /\ walk[1].file = Root /\ ~walk[1].err

\* The planner's half: one chunk, without entries.
EmptyInputPlan ==
    (IsEmptyTree /\ dataChunks # <<>>) =>
        /\ Len(dataChunks) = 1
        /\ dataChunks[1].files = <<>>

\* The other half: Decompress of what Compress wrote (nothing was at the
\* destination before, no frame holds the marker or ends in white space, the
\* scanner reached the end of the file, no directory creation failed)
\* returns nil and creates no file.
EmptyInputRoundTrip ==
    ( /\ IsEmptyTree
      /\ CompressedThenDecompressed
      /\ fs[Dst] = Some(JoinWithMarker(chunkBytes))
      /\ quirks = 0
      /\ scanner.err # "ErrTooLong"
      /\ Last(history).ret # "panic" )
    => /\ Last(history).ret = Nil
       /\ \A p \in FilePaths : out[p] = None

\* C11: for an empty source directory the planner yields exactly one chunk
\* and that chunk has no entries, for every threshold; decompressing the
\* resulting output creates no file and returns no error.
EmptyInput == EmptyInputPlan /\ EmptyInputRoundTrip

----------------------------------------------------------------------------
(* The shared decoder.                                                     *)

RegularFiles(records) == SelectSeq(records, LAMBDA b : ~RecordIsDir(b))

\* C12: the regular-file entries replayed from a token depend on that
\* token's bytes alone: every token handed to the decoder, the k-th of a
\* Decompress call and the tokens of a later call included, is replayed as
\* if it were the first one ever decoded (unless a directory creation
\* failed in it).
DecoderStateDoesNotLeak ==
    \A i \in 1..Len(replayed) :
        replayed[i].end # "panic" =>
            RegularFiles(replayed[i].records) =
                RegularFiles(DecodeFrame(handed[i]).records)

----------------------------------------------------------------------------
(* The shared buffer.                                                      *)

\* C13: every time the encoding of a chunk starts, in whatever sequence of
\* Compress and Decompress calls on the instance, calls that returned an
\* error included, bc.buffer is empty.
BufferCleanAtEncode ==
    (pc = "compressLoop" /\ chunkIdx < Len(dataChunks)) =>
        bc.buffer = Some(<<>>)

----------------------------------------------------------------------------
(* The threshold and the plan.                                             *)

\* The plan after the first k calls of the walk function.
PlanAfter(k) ==
    createChunkInfo(SubSeq(walk, 1, k), bc.MaxPrecompressChunkSize).dataChunks

WithinThreshold(chunks, threshold) ==
    \A i \in 1..Len(chunks) :
        LET c == chunks[i]
        IN  /\ Len(c.files) > 1 => c.totalSize <= threshold
            /\ c.totalSize > threshold =>
                   /\ Len(c.files) = 1
                   /\ c.files[1].size > threshold

\* C14: every chunk that holds more than one entry has totalSize <=
\* MaxPrecompressChunkSize; a chunk's total exceeds the threshold only when
\* the chunk is a single entry whose own size exceeds it, and this is so
\* after every call of the walk function (no entry is added to such a chunk
\* later).
ThresholdInvariant ==
    pc = "planned" =>
        /\ WithinThreshold(dataChunks, bc.MaxPrecompressChunkSize)
        /\ \A k \in 0..Len(walk) :
               WithinThreshold(PlanAfter(k), bc.MaxPrecompressChunkSize)

\* Witness of C14: a plan with a chunk of several entries, and a chunk over
\* the threshold that is followed by another chunk.
ThresholdInvariantWitness ==
    /\ pc = "planned"
    /\ \E i \in 1..Len(dataChunks) :
         Len(dataChunks[i].files) > 1 /\ dataChunks[i].totalSize > 0
    /\ \E i \in 1..(Len(dataChunks) - 1) :
         dataChunks[i].totalSize > bc.MaxPrecompressChunkSize

\* C15: a directory entry counts as size 0 in the fit test as in the running
\* total: whenever the current chunk's totalSize is <= threshold when the
\* walk function is called for a directory, the directory is appended to the
\* current chunk and no new chunk is started.
DirectoriesAreFree ==
    pc = "planned" =>
        \A k \in 1..Len(walk) :
            LET before == PlanAfter(k - 1)
                current == before[Len(before)]
            IN  (walk[k].isDir
                 /\ current.totalSize <= bc.MaxPrecompressChunkSize)
                => /\ Len(PlanAfter(k)) = Len(before)
                   /\ PlanAfter(k)[Len(before)].files
                        = Append(current.files, walk[k])

----------------------------------------------------------------------------
(* Errors of the decoder.                                                  *)

\* decompressChunk returned an error for the i-th token.
DecodeFailed(i) == replayed[i].end \notin {"EOF", "panic"}

\* C16: once decoding of a token returned an error, that token is the last
\* one decoded, the loop of Decompress is over, Decompress returned an error,
\* and the files replayed up to the error are in place.
FailedIsTerminal ==
    \A i \in 1..Len(replayed) :
        DecodeFailed(i) =>
            /\ i = Len(replayed)
            /\ pc \notin {"scan", "token"}
            /\ JustReturned("Decompress") => Last(history).ret = "error"
            /\ \A j \in 1..i :
                 \A n \in 1..Len(replayed[j].records) :
                     ~RecordIsDir(replayed[j].records[n]) =>
                         out[RecordName(replayed[j].records[n])] # None

\* Witness of C16: Decompress returned the error of the first token of an
\* archive of several chunks, after a file of that token was written.
FailedIsTerminalWitness ==
    /\ JustReturned("Decompress")
    /\ Last(history).ret = "error"
    /\ Len(chunkBytes) >= 2
    /\ fs[Dst] = Some(JoinWithMarker(chunkBytes))
    /\ Len(replayed) = 1
    /\ DecodeFailed(1)
    /\ RegularFiles(replayed[1].records) # <<>>

\* C19: when creating the parent directory of a file entry fails, Decompress
\* stops (that token is the last one decoded, the entry and those after it
\* are not replayed) and the failure comes back to the caller as an error:
\* the process does not end.
MkdirFailureIsReported ==
    \A i \in 1..Len(replayed) :
        replayed[i].end = "panic" =>
            /\ i = Len(replayed)
            /\ pc \notin {"scan", "token", "crashed"}
            /\ JustReturned("Decompress") => Last(history).ret = "error"

----------------------------------------------------------------------------
(* The scan loop.                                                          *)

\* C17: for every finite input the scan loop of Decompress stops: once
\* Decompress scans, it returns (input exhausted, scanner or decoder error)
\* or the process ends; it does not go on asking for data for ever.
ScanTerminates == (pc = "scan") ~> (pc \in {"idle", "crashed"})

\* Witness of C17: Decompress returned after the scanner read to its end a
\* file longer than its first buffer that starts and ends with the marker.
ScanTerminatesWitness ==
    /\ pc = "idle"
    /\ history # <<>>
    /\ history[Len(history)].op = "Decompress"
    /\ IsPrefix(chunkseparator, fs[Dst][1])
    /\ Len(fs[Dst][1]) > bc.MaxDecompressBufferSize
    /\ SubSeq(fs[Dst][1], Len(fs[Dst][1]) - Len(chunkseparator) + 1,
              Len(fs[Dst][1])) = chunkseparator
    /\ scanner.rd = Len(fs[Dst][1])
    /\ scanner.err = "EOF"

----------------------------------------------------------------------------
(* Two instances.                                                          *)

\* The records of instance i's own chunk.
OwnRecords(i) ==
    { Record(sess.inst[i].files[n]) : n \in 1..Len(sess.inst[i].files) }

\* Every record among the bytes data is one of instance i's own.
OnlyOwn(i, data) ==
    \A n \in 1..Len(data) : IsRecord(data[n]) => data[n] \in OwnRecords(i)

\* C18: two operations that run at the same time on two distinct
\* BigCompressor instances do not mix: under every interleaving the records
\* in an instance's buffer and in its output are those of its own chunk, and
\* an instance that has written its chunk has written its frame.
SessionsIndependent ==
    \A i \in Instances :
        /\ OnlyOwn(i, sess.inst[i].buffer)
        /\ OnlyOwn(i, sess.inst[i].output)
        /\ sess.inst[i].pos = "done" =>
               sess.inst[i].output
                   = Frame(sess.inst[i].files, "plain") \o chunkseparator

====
